---- MODULE Spec2Model ----
(***************************************************************************)
(* One accepted connection of the flex server: the detect_session that     *)
(* sniffs TLS, the plain_http_session / ssl_http_session built on the      *)
(* http_session<Derived> base (read, queue_write, do_write, on_write,      *)
(* do_eof) and the websocket_session created on upgrade.                   *)
(*                                                                         *)
(* The client's byte stream is the sequence 1, 2, ..., MaxBytes: a stream  *)
(* unit is named by its position, so a unit that is lost, duplicated or    *)
(* reordered on its way through the buffers is visible.  One HTTP request  *)
(* and one WebSocket frame occupy one unit each, the TLS handshake the     *)
(* first HsLen units.  A request and its response are named by the unit    *)
(* the parser consumed for the request.                                    *)
(*                                                                         *)
(* Spec follows one accepted connection through its sessions; ServerSpec   *)
(* follows main() and the listener's accept loop, with an accepted         *)
(* connection reduced to "its session is still running".                   *)
(***************************************************************************)
EXTENDS Integers, Sequences, FiniteSets, TLC

\* ------------------------------------------------------------------ bounds
MaxBytes == 9      \* units the client sends on the connection
MaxChunk == 3      \* most units one read_some returns
HsLen == 2         \* units of the client's TLS handshake
DetectNeed == 1    \* leading units async_detect_ssl needs to decide
MaxAccepts == 4    \* accept completions the listener is followed through

\* ------------------------------------------------------- program constants
queue_limit == 8   \* http_session::queue_limit
body_limit == 10000  \* do_read: parser_->body_limit(10000)

VARIABLES
    \* the transport
    net_pos,          \* units already taken from the socket
    peer_closed,      \* the client has closed its sending side
    tls,              \* the leading units are a TLS handshake record
    send_shutdown,    \* the sending side of the transport was shut down
    sock_dead,        \* a timeout or a reset closed the socket
    timer_armed,      \* the stream has an expiry set (expires_after / expires_never)
    stream_owner,     \* the object that holds the stream (moved along the stages)
    \* detect_session
    det_state,        \* "constructed", "detecting", "done"
    det_buffer,       \* detect_session::buffer_
    made,             \* the sessions on_detect constructed, in order
    \* http_session<Derived>
    http_kind,        \* "none", "plain", "ssl"
    hs_pending,       \* async_handshake outstanding
    hs_used,          \* bytes_used the handshake took from buffer_
    hs_got,           \* handshake units the TLS engine has received
    buffer_,          \* http_session::buffer_
    response_queue_,  \* http_session::response_queue_
    http_reads,       \* http::async_read operations outstanding
    writing,          \* beast::async_write operations outstanding
    shutdown_pending, \* ssl async_shutdown operations outstanding
    \* websocket_session<Derived>
    ws_accepts,       \* async_accept operations outstanding
    ws_reads,         \* websocket async_read operations outstanding
    ws_writes,        \* websocket async_write operations outstanding (the messages)
    ws_rd,            \* units the websocket stream has read and not yet framed
    ws_buffer,        \* websocket_session::buffer_ (message payload)
    \* the server process: main and the listener
    main_pc,          \* where main() is
    exit_code,        \* what main() returned
    acceptor_,        \* listener::acceptor_: "closed", "open", "listening"
    accepts_pending,  \* async_accept operations outstanding
    accepts_issued,   \* calls of listener::do_accept
    accept_done,      \* completions of async_accept handled by on_accept
    detectors,        \* detect_session objects made by on_accept
    inflight,         \* accepted connections whose session is still running
    \* process
    crashed,          \* undefined behaviour ended the process
    \* history
    delivered,        \* units handed to a consumer (TLS engine, parser, framer)
    reads,            \* requests read successfully, in order
    handled,          \* responses returned by handle_request, in order
    writes_started,   \* responses whose async_write was started, in order
    written,          \* responses whose write completed successfully
    reads_issued,     \* calls of http_session::do_read
    resumed,          \* calls of do_read made by on_write
    eof_calls,        \* calls of Derived::do_eof
    ws_created,       \* websocket sessions made by make_websocket_session
    ws_in,            \* websocket messages read, in order
    ws_echo,          \* websocket messages whose write was started, in order
    ws_written,       \* websocket messages whose write completed successfully
    reports,          \* what fail() printed, in order
    suppressed,       \* the calls of fail() that printed nothing, in order
    ws_end,           \* how the websocket echo loop ended: "none", "rejected" (accept failed), "closed", "failed"
    env_error,        \* an I/O failure, a timeout or a request the parser rejects occurred
    last_req,         \* the request the parser produced last, as received
    last_status,      \* the status of the response handle_request returned last
    read_ec,          \* the error code http_session::on_read was called with last
    \* one call of handle_request
    h_doc_root,       \* the doc_root argument
    h_req,            \* the req argument
    h_disk,           \* what opening the file at the path will yield
    h_pc,             \* where the call is
    h_path,           \* the local path, once built
    h_opens,          \* calls of body.open
    h_ec,             \* the error code body.open set
    h_res,            \* the responses returned, in order
    \* the connections served side by side
    peer,             \* per connection: the session's stage, buffer, queue, operations
    \* the command line
    argv,             \* argc and argv[1..4] as given
    cfg               \* address, port, doc_root and threads as main computed them

transport == <<net_pos, peer_closed, tls, send_shutdown, stream_owner>>
detector == <<det_state, det_buffer>>
httpvars == <<http_kind, hs_pending, hs_used, hs_got, buffer_, response_queue_,
              http_reads, writing, shutdown_pending>>
wsvars == <<ws_accepts, ws_reads, ws_writes, ws_rd, ws_buffer>>
history == <<delivered, reads, handled, writes_started, written, reads_issued,
             resumed, eof_calls, ws_created, ws_in, ws_echo, reports, env_error>>
expiry == <<sock_dead, timer_armed>>
parsed == <<last_req, last_status, read_ec>>
server == <<main_pc, exit_code, acceptor_, accepts_pending, accepts_issued,
            accept_done, detectors, inflight>>
ended == <<suppressed, ws_end>>
handler == <<h_doc_root, h_req, h_disk, h_pc, h_path, h_opens, h_ec, h_res>>
startup == <<argv, cfg>>
others == <<handler, peer, startup>>
vars == <<transport, expiry, detector, made, httpvars, wsvars, server, crashed, history,
          ws_written, ended, parsed, others>>

\* ----------------------------------------------------------------- helpers
Min(a, b) == IF a < b THEN a ELSE b

\* The units from..to of the client's stream, in order.
Stream(from, to) == [i \in 1..(to - from + 1) |-> from + i - 1]

\* beast::flat_buffer::consume(n)
Consume(buf, n) == SubSeq(buf, Min(n, Len(buf)) + 1, Len(buf))

\* What one read_some can return: 1..MaxChunk units, never past the stream.
Chunks == {k \in 1..MaxChunk : net_pos + k <= MaxBytes}

\* Failures the environment can inject into an outstanding operation.
EnvErrors == {"timeout", "connection_reset", "stream_truncated"}

\* The failures an operation can complete with: a timeout only while the
\* expiry is set, a truncated TLS stream only when the operation reads from a
\* TLS stream (handshake, http read, shutdown, websocket read).
IoErrors(ssl, armed) ==
    {ec \in EnvErrors : /\ ec = "timeout" => armed
                        /\ ec = "stream_truncated" => ssl}

\* A timeout closes the socket (beast::basic_stream), a reset leaves it dead.
Kills(ec) == ec \in {"timeout", "connection_reset"}

\* A fail() that prints every error, the truncated TLS stream included.
LoudFail(ec, what) == Append(reports, what)

\* A fail() that prints nothing.
SilentFail(ec, what) == reports

\* A fail() that is silent only about a truncated TLS stream at shutdown.
FailQuietAtShutdown(ec, what) ==
    IF ec = "stream_truncated" /\ what = "shutdown" THEN reports
                                                     ELSE Append(reports, what)

\* fail(ec, what): the call returns without printing.
Suppressed(ec, what) ==
    IF ec = "stream_truncated" THEN Append(suppressed, what) ELSE suppressed

\* fail(ec, what): util.hpp
fail(ec, what) ==
    IF ec = "stream_truncated" THEN reports ELSE Append(reports, what)

\* No request was parsed yet.
NoRequest ==
    [id |-> 0, upgrade |-> FALSE, keep_alive |-> FALSE, method |-> "none",
     target |-> "none", body |-> 0]

\* The connection as on_accept leaves it: a detect_session was constructed
\* around the socket and nothing has run yet.
ConnInit ==
    /\ net_pos = 0
    /\ peer_closed = FALSE
    /\ send_shutdown = FALSE
    /\ sock_dead = FALSE
    /\ timer_armed = FALSE
    /\ stream_owner = "detect"
    /\ det_state = "constructed"
    /\ det_buffer = <<>>
    /\ made = <<>>
    /\ http_kind = "none"
    /\ hs_pending = FALSE
    /\ hs_used = 0
    /\ hs_got = 0
    /\ buffer_ = <<>>
    /\ response_queue_ = <<>>
    /\ http_reads = 0
    /\ writing = <<>>
    /\ shutdown_pending = 0
    /\ ws_accepts = 0
    /\ ws_reads = 0
    /\ ws_writes = <<>>
    /\ ws_rd = <<>>
    /\ ws_buffer = <<>>
    /\ crashed = FALSE
    /\ delivered = <<>>
    /\ reads = <<>>
    /\ handled = <<>>
    /\ writes_started = <<>>
    /\ written = <<>>
    /\ reads_issued = 0
    /\ resumed = 0
    /\ eof_calls = 0
    /\ ws_created = 0
    /\ ws_in = <<>>
    /\ ws_echo = <<>>
    /\ ws_written = <<>>
    /\ suppressed = <<>>
    /\ ws_end = "none"
    /\ reports = <<>>
    /\ env_error = FALSE
    /\ last_req = NoRequest
    /\ last_status = 0
    /\ read_ec = "none"

\* The server while it serves: the listener accepted this connection and
\* waits for the next one.
Serving ==
    /\ main_pc = "serving"
    /\ exit_code = "none"
    /\ acceptor_ = "listening"
    /\ accepts_pending = 1
    /\ accepts_issued = 2
    /\ accept_done = 1
    /\ detectors = 1
    /\ inflight = 1

\* MaxConns connections are followed side by side
MaxConns == 2

Conns == 1..MaxConns

\* A connection the listener has not accepted yet.
FreePeer == [stage |-> "free", tls |-> FALSE, buffer |-> 0, queue |-> 0,
             ops |-> {}, failed |-> 0]

\* What main() computed from the command line 0.0.0.0 8080 . 1
Started ==
    /\ argv = [argc |-> 5, address |-> "0.0.0.0", port |-> "8080",
               doc_root |-> ".", threads |-> "1"]
    /\ cfg = [address |-> "0.0.0.0", port |-> 8080, doc_root |-> ".", threads |-> 1]

\* No call of handle_request is followed step by step, and no connections
\* side by side.
Idle ==
    /\ peer = [c \in Conns |-> FreePeer]
    /\ h_doc_root = <<>>
    /\ h_req = [method |-> "get", target |-> <<>>, version |-> 11, connection |-> {}]
    /\ h_disk = "ok"
    /\ h_pc = "idle"
    /\ h_path = <<>>
    /\ h_opens = 0
    /\ h_ec = "none"
    /\ h_res = <<>>

\* The server started from a valid command line; nothing else is followed.
NoCall == Started /\ Idle

Init ==
    /\ tls \in BOOLEAN
    /\ ConnInit
    /\ Serving
    /\ NoCall

\* --------------------------------------------------------- the environment
\* The client closes its sending side: nothing more arrives.
PeerClose ==
    /\ ~crashed /\ ~peer_closed
    /\ det_state # "constructed"
    /\ peer_closed' = TRUE
    /\ UNCHANGED <<others, server, ws_written, ended, made, expiry, parsed, net_pos, tls, send_shutdown, stream_owner, detector, httpvars,
                   wsvars, crashed, history>>

\* ----------------------------------------------------------- detect_session
\* detect_session::run / on_run: start the detection with its 30 s timeout.
DetectRun ==
    /\ ~crashed /\ det_state = "constructed"
    /\ det_state' = "detecting"
    /\ timer_armed' = TRUE
    /\ UNCHANGED <<others, server, ws_written, ended, made, sock_dead, parsed, transport, det_buffer, httpvars, wsvars, crashed, history>>


\* async_detect_ssl reads into buffer_ until it can decide; it consumes nothing.
DetectReadSome ==
    /\ ~crashed /\ det_state = "detecting" /\ ~peer_closed /\ ~sock_dead
    /\ Len(det_buffer) < DetectNeed
    /\ \E k \in Chunks :
          /\ det_buffer' = det_buffer \o Stream(net_pos + 1, net_pos + k)
          /\ net_pos' = net_pos + k
    /\ UNCHANGED <<others, server, ws_written, ended, made, expiry, parsed, peer_closed, tls, send_shutdown, stream_owner, det_state,
                   httpvars, wsvars, crashed, history>>

\* on_detect: std::move(buffer_) hands the detection buffer to the session.
MoveBuffer(buf) == buf

\* An on_detect that makes a plain session whatever was detected.
AlwaysPlain(result) == "plain"

\* on_detect: the session type is chosen by the detection result alone.
DetectTarget(result) == IF result THEN "ssl" ELSE "plain"

\* ssl_http_session::run: the buffered handshake reads buffer_.data() first;
\* bytes_used is what it took from there.
BytesUsed(buf) == Min(Len(buf), HsLen)

\* detect_session::on_detect with an error: fail and return; the detector and
\* its stream are destroyed.
OnDetectErr ==
    /\ ~crashed /\ det_state = "detecting"
    /\ \E ec \in IoErrors(FALSE, timer_armed) :
          /\ reports' = fail(ec, "detect")
          /\ suppressed' = Suppressed(ec, "detect")
          /\ sock_dead' = (sock_dead \/ Kills(ec))
    /\ det_state' = "done"
    /\ stream_owner' = "none"
    /\ env_error' = TRUE
    /\ UNCHANGED <<others, server, ws_written, ws_end, made, timer_armed, parsed, net_pos, peer_closed, tls, send_shutdown, det_buffer, httpvars,
                   wsvars, crashed, delivered, reads, handled, writes_started,
                   written, reads_issued, resumed, eof_calls, ws_created, ws_in, ws_echo>>

\* An expiry call that leaves the stream without a deadline.
NoDeadline(armed) == FALSE

\* beast::get_lowest_layer(stream).expires_after(std::chrono::seconds(30)):
\* the operations that follow fail with a timeout when the deadline passes.
ExpiresAfter(armed) == TRUE

\* beast::get_lowest_layer(stream).expires_never()
ExpiresNever(armed) == FALSE

\* detect_session::on_detect without error: make the ssl or the plain session
\* with the stream and the buffer moved into it, and run() it.
\*   plain_http_session::run -> do_read
\*   ssl_http_session::run   -> async_handshake(server, buffer_.data(), ...)
OnDetectOk ==
    /\ ~crashed /\ det_state = "detecting" /\ ~sock_dead
    /\ Len(det_buffer) >= DetectNeed
    /\ LET result == tls
           buf == MoveBuffer(det_buffer)
       IN /\ http_kind' = DetectTarget(result)
          /\ made' = Append(made, DetectTarget(result))
          /\ buffer_' = buf
          /\ IF DetectTarget(result) = "ssl"
             THEN /\ hs_pending' = TRUE
                  /\ hs_used' = BytesUsed(buf)
                  /\ hs_got' = BytesUsed(buf)
                  /\ delivered' = delivered \o SubSeq(buf, 1, BytesUsed(buf))
                  /\ UNCHANGED <<http_reads, reads_issued, resumed>>
             ELSE /\ http_reads' = http_reads + 1
                  /\ reads_issued' = reads_issued + 1
                  /\ UNCHANGED <<hs_pending, hs_used, hs_got, delivered, resumed>>
    /\ det_state' = "done"
    /\ timer_armed' = ExpiresAfter(timer_armed)
    /\ det_buffer' = <<>>
    /\ stream_owner' = "http"
    /\ UNCHANGED <<others, server, ws_written, ended, sock_dead, parsed, net_pos, peer_closed, tls, send_shutdown, response_queue_,
                   writing, shutdown_pending, wsvars, crashed, reads, handled,
                   writes_started, written, eof_calls, ws_created, ws_in, ws_echo,
                   reports, env_error>>

\* ---------------------------------------------------------- ssl_http_session
\* The handshake in progress: what buffer_.data() did not supply the TLS
\* engine reads from the socket itself.
HandshakeReadSome ==
    /\ ~crashed /\ hs_pending /\ ~peer_closed /\ ~sock_dead
    /\ hs_got < HsLen
    /\ \E k \in Chunks :
          /\ k <= HsLen - hs_got
          /\ delivered' = delivered \o Stream(net_pos + 1, net_pos + k)
          /\ net_pos' = net_pos + k
          /\ hs_got' = hs_got + k
    /\ UNCHANGED <<others, server, ws_written, ended, made, expiry, parsed, peer_closed, tls, send_shutdown, stream_owner, detector,
                   http_kind, hs_pending, hs_used, buffer_, response_queue_,
                   http_reads, writing, shutdown_pending, wsvars, crashed, reads,
                   handled, writes_started, written, reads_issued, resumed, eof_calls,
                   ws_created, ws_in, ws_echo, reports, env_error>>

\* A handshake completion that clears the buffer instead of consuming bytes_used.
ConsumeAll(buf, bytes_used) == <<>>

\* A handshake completion that leaves the handshake's bytes in the buffer.
ConsumeNothing(buf, bytes_used) == buf

\* on_handshake: buffer_.consume(bytes_used)
HandshakeConsume(buf, bytes_used) == Consume(buf, bytes_used)

\* ssl_http_session::on_handshake without error: consume, then do_read.
OnHandshakeOk ==
    /\ ~crashed /\ hs_pending /\ ~sock_dead
    /\ hs_got = HsLen
    /\ hs_pending' = FALSE
    /\ timer_armed' = ExpiresAfter(timer_armed)
    /\ buffer_' = HandshakeConsume(buffer_, hs_used)
    /\ http_reads' = http_reads + 1
    /\ reads_issued' = reads_issued + 1
    /\ UNCHANGED <<others, server, ws_written, ended, made, sock_dead, parsed, resumed, transport, detector, http_kind, hs_used, hs_got,
                   response_queue_, writing, shutdown_pending, wsvars, crashed,
                   delivered, reads, handled, writes_started, written, eof_calls,
                   ws_created, ws_in, ws_echo, reports, env_error>>

\* ssl_http_session::on_handshake with an error: fail and return.
OnHandshakeErr ==
    /\ ~crashed /\ hs_pending
    /\ \E ec \in IoErrors(TRUE, timer_armed) :
          /\ reports' = fail(ec, "handshake")
          /\ suppressed' = Suppressed(ec, "handshake")
          /\ sock_dead' = (sock_dead \/ Kills(ec))
    /\ hs_pending' = FALSE
    /\ stream_owner' = "none"
    /\ env_error' = TRUE
    /\ UNCHANGED <<others, server, ws_written, ws_end, made, timer_armed, parsed, net_pos, peer_closed, tls, send_shutdown, detector, http_kind,
                   hs_used, hs_got, buffer_, response_queue_, http_reads, writing,
                   shutdown_pending, wsvars, crashed, delivered, reads, handled,
                   writes_started, written, reads_issued, resumed, eof_calls, ws_created,
                   ws_in, ws_echo>>

\* ------------------------------------------------------ http_session<Derived>
\* An upgrade test that never recognises an upgrade request.
NeverUpgrade(req) == FALSE

\* websocket::is_upgrade(parser_->get())
is_upgrade(req) == req.upgrade

\* handle_request: one response per request, res.keep_alive(req.keep_alive())
\* on every branch.
handle_request(req) == [id |-> req.id, keep_alive |-> req.keep_alive]

\* A queue that takes the new response at its front.
QueuePushFront(q, res) == <<res>> \o q

\* queue_write: response_queue_.push(std::move(response))
QueuePush(q, res) == Append(q, res)

\* A queue_write that starts a write for every response it pushes.
QueueAlwaysStartsWrite(size) == size >= 1

\* queue_write: if (response_queue_.size() == 1) do_write();
QueueStartsWrite(size) == size = 1

\* An on_read that reads on only once the queue has drained.
ReadNextAfterDrain(size) == size = 0

\* A read-on test that is off by one.
ReadNextOffByOne(size) == size <= queue_limit

\* on_read: if (response_queue_.size() < queue_limit) do_read();
ReadNext(size) == size < queue_limit

\* An on_write that issues a read after every write.
ResumeAlways(size) == TRUE

\* An on_write that never resumes reading.
ResumeNever(size) == FALSE

\* on_write: if (response_queue_.size() == queue_limit) do_read();
ResumeRead(size) == size = queue_limit

\* on_write: response_queue_.pop()
QueuePop(q) == IF q = <<>> THEN q ELSE Tail(q)

\* do_write: if the queue is not empty, async_write(response_queue_.front())
\* with keep_alive bound to the completion handler.  A write started after the
\* sending side was shut down cannot succeed.
DoWrite(q, w) ==
    IF q # <<>> THEN Append(w, [res |-> Head(q), doomed |-> send_shutdown]) ELSE w

\* The responses whose write was started, after do_write on queue q.
DoWriteStarted(q, ws) == IF q # <<>> THEN Append(ws, Head(q)) ELSE ws

\* on_write: if (! keep_alive) return derived().do_eof();
ClosesAfterWrite(keep_alive) == ~keep_alive

\* make_websocket_session(release_stream(), parser_->release()): the new
\* websocket_session owns a default-constructed buffer_; the http session's
\* buffer_ is not passed on.
WsSessionBuffer(httpbuf) == <<>>

\* What a request is made of besides its place in the stream: the method, the
\* request target (legal, or empty / not starting with '/' / containing "..")
\* and the size of the body.
RequestShapes ==
    { [method |-> "get", target |-> "legal", body |-> body_limit],
      [method |-> "post", target |-> "legal", body |-> 0],
      [method |-> "get", target |-> "illegal", body |-> 0],
      [method |-> "get", target |-> "legal", body |-> body_limit + 1] }

\* The request parsed from unit id.
Request(id, up, ka, shape) ==
    [id |-> id, upgrade |-> up, keep_alive |-> ka, method |-> shape.method,
     target |-> shape.target, body |-> shape.body]

\* What http_session's queue sees of a request.
Parsed(req) == [id |-> req.id, upgrade |-> req.upgrade, keep_alive |-> req.keep_alive]

\* A parser without a body limit.
ParserAcceptsAll(body) == TRUE

\* do_read: parser_->body_limit(10000); a body above the limit ends the read
\* with http::error::body_limit.
ParserAccepts(body) == body <= body_limit

\* handle_request: 400 for a method other than GET and HEAD, 400 for an
\* illegal request target, otherwise the status the file lookup gives.
Status(req) ==
    IF req.method # "get" /\ req.method # "head" THEN 400
    ELSE IF req.target = "illegal" THEN 400
    ELSE 200

\* http::async_read in progress: the parser takes what buffer_ holds first and
\* reads from the stream only when it needs more.
HttpReadSome ==
    /\ ~crashed /\ http_reads > 0 /\ ~peer_closed /\ ~sock_dead
    /\ stream_owner = "http"
    /\ buffer_ = <<>>
    /\ \E k \in Chunks :
          /\ buffer_' = buffer_ \o Stream(net_pos + 1, net_pos + k)
          /\ net_pos' = net_pos + k
    /\ UNCHANGED <<others, server, ws_written, ended, made, expiry, parsed, peer_closed, tls, send_shutdown, stream_owner, detector,
                   http_kind, hs_pending, hs_used, hs_got, response_queue_,
                   http_reads, writing, shutdown_pending, wsvars, crashed, history>>

\* http_session::on_read without error: one request was parsed out of buffer_.
\*   upgrade:  expires_never, make_websocket_session(release_stream(), request)
\*             -> websocket_session::run -> async_accept
\*   ordinary: queue_write(handle_request(...)); read on while the queue is
\*             below queue_limit
OnReadOk ==
    /\ ~crashed /\ http_reads > 0
    /\ buffer_ # <<>>
    /\ \E up \in BOOLEAN, ka \in BOOLEAN, shape \in RequestShapes :
        /\ up => (ka /\ Status(shape) = 200)
        /\ ParserAccepts(shape.body)
        /\ LET full == Request(Head(buffer_), up, ka, shape)
               req == Parsed(full)
           IN /\ buffer_' = Tail(buffer_)
              /\ delivered' = Append(delivered, req.id)
              /\ reads' = Append(reads, req)
              /\ last_req' = full
              /\ read_ec' = "ok"
              /\ IF is_upgrade(req)
                 THEN /\ http_reads' = http_reads - 1
                      /\ timer_armed' = ExpiresNever(timer_armed)
                      /\ UNCHANGED last_status
                      /\ stream_owner' = "ws"
                      /\ ws_created' = ws_created + 1
                      /\ ws_buffer' = WsSessionBuffer(Tail(buffer_))
                      /\ ws_rd' = <<>>
                      /\ ws_accepts' = ws_accepts + 1
                      /\ UNCHANGED <<response_queue_, writing, handled,
                                     writes_started, reads_issued, resumed>>
                 ELSE LET res == handle_request(req)
                          q == QueuePush(response_queue_, res)
                          start == QueueStartsWrite(Len(q))
                          again == IF ReadNext(Len(q)) THEN 1 ELSE 0
                      IN /\ handled' = Append(handled, res)
                         /\ response_queue_' = q
                         /\ writing' = IF start THEN DoWrite(q, writing) ELSE writing
                         /\ writes_started' =
                               IF start THEN DoWriteStarted(q, writes_started)
                               ELSE writes_started
                         /\ http_reads' = http_reads - 1 + again
                         /\ reads_issued' = reads_issued + again
                         /\ timer_armed' = IF again = 1 THEN ExpiresAfter(timer_armed)
                                           ELSE timer_armed
                         /\ last_status' = Status(full)
                         /\ UNCHANGED <<stream_owner, ws_created, ws_buffer, ws_rd,
                                        ws_accepts, resumed>>
    /\ UNCHANGED <<others, server, ws_written, ended, made, sock_dead, net_pos, peer_closed, tls, send_shutdown,
                   detector, http_kind,
                   hs_pending, hs_used, hs_got, shutdown_pending, ws_reads,
                   ws_writes, crashed, written, eof_calls, ws_in, ws_echo, reports,
                   env_error>>

\* http_session::on_read with http::error::end_of_stream: the peer closed and
\* no unit of a next request was received.  return derived().do_eof();
\*   plain_http_session::do_eof: socket().shutdown(shutdown_send)
\*   ssl_http_session::do_eof:   expires_after(30 s), async_shutdown
OnReadEof ==
    /\ ~crashed /\ http_reads > 0
    /\ peer_closed /\ buffer_ = <<>> /\ ~sock_dead
    /\ http_reads' = http_reads - 1
    /\ read_ec' = "end_of_stream"
    /\ eof_calls' = eof_calls + 1
    /\ send_shutdown' = TRUE
    /\ timer_armed' = IF http_kind = "ssl" THEN ExpiresAfter(timer_armed)
                      ELSE timer_armed
    /\ shutdown_pending' = IF http_kind = "ssl" THEN shutdown_pending + 1
                           ELSE shutdown_pending
    /\ UNCHANGED <<others, server, ws_written, ended, made, sock_dead, last_req, last_status, net_pos, peer_closed, tls, stream_owner, detector, http_kind,
                   hs_pending, hs_used, hs_got, buffer_, response_queue_, writing,
                   wsvars, crashed, delivered, reads, handled, writes_started,
                   written, reads_issued, resumed, ws_created, ws_in, ws_echo, reports,
                   env_error>>

\* http_session::on_read with http::error::body_limit: the request in buffer_
\* carries a body above the parser's limit.  return fail(ec, "read");
OnReadBodyLimit ==
    /\ ~crashed /\ http_reads > 0
    /\ buffer_ # <<>>
    /\ \E ka \in BOOLEAN, shape \in RequestShapes :
        /\ ~ParserAccepts(shape.body)
        /\ last_req' = Request(Head(buffer_), FALSE, ka, shape)
    /\ buffer_' = Tail(buffer_)
    /\ delivered' = Append(delivered, Head(buffer_))
    /\ read_ec' = "body_limit"
    /\ reports' = fail("body_limit", "read")
    /\ http_reads' = http_reads - 1
    /\ env_error' = TRUE
    /\ UNCHANGED <<others, server, ws_written, ended, made, expiry, last_status, transport, detector, http_kind,
                   hs_pending, hs_used, hs_got, response_queue_, writing,
                   shutdown_pending, wsvars, crashed, reads, handled,
                   writes_started, written, reads_issued, resumed, eof_calls,
                   ws_created, ws_in, ws_echo>>

\* http_session::on_read with any other error: return fail(ec, "read");
OnReadErr ==
    /\ ~crashed /\ http_reads > 0
    /\ \E ec \in IoErrors(http_kind = "ssl", timer_armed) :
          /\ read_ec' = ec
          /\ reports' = fail(ec, "read")
          /\ suppressed' = Suppressed(ec, "read")
          /\ sock_dead' = (sock_dead \/ Kills(ec))
    /\ http_reads' = http_reads - 1
    /\ env_error' = TRUE
    /\ UNCHANGED <<others, server, ws_written, ws_end, made, timer_armed, last_req, last_status, transport, detector, http_kind, hs_pending, hs_used, hs_got,
                   buffer_, response_queue_, writing, shutdown_pending, wsvars,
                   crashed, delivered, reads, handled, writes_started, written,
                   reads_issued, resumed, eof_calls, ws_created, ws_in, ws_echo>>

\* The in-flight operations w without the i-th.
Without(w, i) == SubSeq(w, 1, i - 1) \o SubSeq(w, i + 1, Len(w))

\* http_session::on_write without error.
\*   close:      return derived().do_eof();
\*   keep-alive: do_read() if the queue is at queue_limit, pop(), do_write().
\* After release_stream() the stream member is moved-from: using it is
\* undefined behaviour, which either goes on or ends the process.
OnWriteOk ==
    /\ ~crashed
    /\ \E i \in 1..Len(writing), ub \in BOOLEAN :
        LET op == writing[i]
            rest == Without(writing, i)
            close == ClosesAfterWrite(op.res.keep_alive)
            resume == IF ResumeRead(Len(response_queue_)) THEN 1 ELSE 0
            q == QueuePop(response_queue_)
            touches == close \/ resume = 1 \/ q # <<>>
        IN /\ ~op.doomed /\ ~sock_dead
           /\ ub => (stream_owner # "http" /\ touches)
           /\ written' = Append(written, op.res)
           /\ IF ub
              THEN /\ crashed' = TRUE
                   /\ writing' = rest
                   /\ UNCHANGED <<response_queue_, http_reads, reads_issued, resumed,
                                  writes_started, eof_calls, send_shutdown,
                                  shutdown_pending, timer_armed>>
              ELSE /\ crashed' = crashed
                   /\ IF close
                      THEN /\ eof_calls' = eof_calls + 1
                           /\ send_shutdown' =
                                 IF stream_owner = "http" THEN TRUE ELSE send_shutdown
                           /\ shutdown_pending' =
                                 IF http_kind = "ssl" THEN shutdown_pending + 1
                                 ELSE shutdown_pending
                           /\ timer_armed' =
                                 IF http_kind = "ssl" /\ stream_owner = "http"
                                 THEN ExpiresAfter(timer_armed) ELSE timer_armed
                           /\ writing' = rest
                           /\ UNCHANGED <<response_queue_, http_reads, reads_issued, resumed,
                                          writes_started>>
                      ELSE /\ http_reads' = http_reads + resume
                           /\ reads_issued' = reads_issued + resume
                           /\ resumed' = resumed + resume
                           /\ timer_armed' =
                                 IF resume = 1 /\ stream_owner = "http"
                                 THEN ExpiresAfter(timer_armed) ELSE timer_armed
                           /\ response_queue_' = q
                           /\ writing' = DoWrite(q, rest)
                           /\ writes_started' = DoWriteStarted(q, writes_started)
                           /\ UNCHANGED <<eof_calls, send_shutdown, shutdown_pending>>
    /\ UNCHANGED <<others, server, ws_written, ended, made, sock_dead, parsed, net_pos, peer_closed, tls, stream_owner,
                   detector, http_kind,
                   hs_pending, hs_used, hs_got, buffer_, wsvars, delivered, reads,
                   handled, ws_created, ws_in, ws_echo, reports, env_error>>

\* http_session::on_write with an error: return fail(ec, "write");
\* The error is injected by the environment, or it is the broken pipe of a
\* write on a transport whose sending side the session has shut down.
OnWriteErr ==
    /\ ~crashed
    /\ \E i \in 1..Len(writing) :
        /\ writing' = Without(writing, i)
        /\ \/ /\ send_shutdown \/ sock_dead
              /\ reports' = fail("broken_pipe", "write")
              /\ UNCHANGED <<env_error, sock_dead, suppressed>>
           \/ /\ ~writing[i].doomed /\ ~sock_dead
              /\ \E ec \in IoErrors(FALSE, timer_armed) :
                    /\ reports' = fail(ec, "write")
                    /\ suppressed' = Suppressed(ec, "write")
                    /\ sock_dead' = (sock_dead \/ Kills(ec))
              /\ env_error' = TRUE
    /\ UNCHANGED <<others, server, ws_written, ws_end, made, timer_armed, parsed, transport, detector, http_kind, hs_pending, hs_used, hs_got,
                   buffer_, response_queue_, http_reads, shutdown_pending, wsvars,
                   crashed, delivered, reads, handled, writes_started, written,
                   reads_issued, resumed, eof_calls, ws_created, ws_in, ws_echo>>

\* ssl_http_session::on_shutdown: if (ec) return fail(ec, "shutdown");
OnShutdown ==
    /\ ~crashed /\ shutdown_pending > 0
    /\ shutdown_pending' = shutdown_pending - 1
    /\ \E ec \in {"ok"} \cup IoErrors(TRUE, timer_armed) :
          /\ ec = "ok" => ~sock_dead
          /\ reports' = IF ec = "ok" THEN reports ELSE fail(ec, "shutdown")
          /\ suppressed' = IF ec = "ok" THEN suppressed
                           ELSE Suppressed(ec, "shutdown")
          /\ env_error' = (env_error \/ ec # "ok")
          /\ sock_dead' = (sock_dead \/ Kills(ec))
    /\ UNCHANGED <<others, server, ws_written, ws_end, made, timer_armed, parsed, transport, detector, http_kind, hs_pending, hs_used, hs_got,
                   buffer_, response_queue_, http_reads, writing, wsvars, crashed,
                   delivered, reads, handled, writes_started, written,
                   reads_issued, resumed, eof_calls, ws_created, ws_in, ws_echo>>

\* ------------------------------------------------- websocket_session<Derived>
\* on_read: ws().text(ws().got_text()); async_write(buffer_.data(), ...)
EchoMessage(buf, got_text) == [payload |-> buf, text |-> got_text]

\* An on_write that leaves the message in the buffer.
KeepBuffer(buf) == buf

\* on_write: buffer_.consume(buffer_.size())
ClearBuffer(buf) == Consume(buf, Len(buf))

\* on_accept reads whatever the handshake's outcome (no early return)
ReadAfterAnyAccept(ok) == 1

\* on_accept: if(ec) return fail(ec, "accept"); do_read();
\* the number of reads on_accept issues
ReadAfterAccept(ok) == IF ok THEN 1 ELSE 0

\* websocket_session::on_accept without error: do_read()
WsOnAcceptOk ==
    /\ ~crashed /\ ws_accepts > 0 /\ ~sock_dead
    /\ ws_accepts' = ws_accepts - 1
    /\ ws_reads' = ws_reads + ReadAfterAccept(TRUE)
    /\ UNCHANGED <<others, server, ws_written, ended, made, expiry, parsed, transport, detector, httpvars, ws_writes, ws_rd, ws_buffer,
                   crashed, history>>

\* websocket_session::on_accept with an error: return fail(ec, "accept");
\* run() sets timeout::suggested(role_type::server): the handshake can time
\* out, reads and writes of an open session have no deadline.
WsOnAcceptErr ==
    /\ ~crashed /\ ws_accepts > 0
    /\ ws_accepts' = ws_accepts - 1
    /\ \E ec \in IoErrors(FALSE, TRUE) :
          /\ reports' = fail(ec, "accept")
          /\ suppressed' = Suppressed(ec, "accept")
          /\ sock_dead' = (sock_dead \/ Kills(ec))
    /\ env_error' = TRUE
    /\ ws_reads' = ws_reads + ReadAfterAccept(FALSE)
    /\ ws_end' = "rejected"
    /\ UNCHANGED <<others, server, ws_written, made, timer_armed, parsed, transport, detector, httpvars, ws_writes, ws_rd,
                   ws_buffer, crashed, delivered, reads, handled, writes_started,
                   written, reads_issued, resumed, eof_calls, ws_created, ws_in, ws_echo>>

\* ws().async_read in progress: the websocket stream reads from the transport.
WsReadSome ==
    /\ ~crashed /\ ws_reads > 0 /\ ~peer_closed /\ ~sock_dead
    /\ stream_owner = "ws"
    /\ ws_rd = <<>>
    /\ \E k \in Chunks :
          /\ ws_rd' = ws_rd \o Stream(net_pos + 1, net_pos + k)
          /\ net_pos' = net_pos + k
    /\ UNCHANGED <<others, server, ws_written, ended, made, expiry, parsed, peer_closed, tls, send_shutdown, stream_owner, detector,
                   httpvars, ws_accepts, ws_reads, ws_writes, ws_buffer, crashed,
                   history>>

\* An on_read that reads the next message while it echoes this one.
ReadsWhileEchoing(outstanding) == outstanding

\* on_read: the read that completed is over, and on_read issues only the
\* async_write of the echo: the reads outstanding afterwards
ReadsAfterRead(outstanding) == outstanding - 1

\* websocket_session::on_read without error: one message was appended to
\* buffer_; echo it with the framing it came with.
WsOnReadOk ==
    /\ ~crashed /\ ws_reads > 0
    /\ ws_rd # <<>>
    /\ \E got_text \in BOOLEAN :
        LET buf == Append(ws_buffer, Head(ws_rd))
            msg == EchoMessage(buf, got_text)
        IN /\ ws_buffer' = buf
           /\ ws_in' = Append(ws_in, [payload |-> <<Head(ws_rd)>>, text |-> got_text])
           /\ ws_writes' = Append(ws_writes, msg)
           /\ ws_echo' = Append(ws_echo, msg)
    /\ ws_rd' = Tail(ws_rd)
    /\ delivered' = Append(delivered, Head(ws_rd))
    /\ ws_reads' = ReadsAfterRead(ws_reads)
    /\ UNCHANGED <<others, server, ws_written, ended, made, expiry, parsed, transport, detector, httpvars, ws_accepts, crashed, reads,
                   handled, writes_started, written, reads_issued, resumed, eof_calls,
                   ws_created, reports, env_error>>

\* websocket_session::on_read with websocket::error::closed (a close frame
\* was received): return;
WsOnReadClosed ==
    /\ ~crashed /\ ws_reads > 0
    /\ ws_rd # <<>>
    /\ ws_rd' = Tail(ws_rd)
    /\ delivered' = Append(delivered, Head(ws_rd))
    /\ ws_reads' = ws_reads - 1
    /\ ws_end' = "closed"
    /\ UNCHANGED <<others, server, ws_written, suppressed, made, expiry, parsed, transport, detector, httpvars, ws_accepts, ws_writes,
                   ws_buffer, crashed, reads, handled, writes_started, written,
                   reads_issued, resumed, eof_calls, ws_created, ws_in, ws_echo, reports,
                   env_error>>

\* websocket_session::on_read with any other error: return fail(ec, "read");
WsOnReadErr ==
    /\ ~crashed /\ ws_reads > 0
    /\ ws_reads' = ws_reads - 1
    /\ \E ec \in IoErrors(http_kind = "ssl", FALSE) :
          /\ reports' = fail(ec, "read")
          /\ suppressed' = Suppressed(ec, "read")
          /\ ws_end' = "failed"
          /\ sock_dead' = (sock_dead \/ Kills(ec))
    /\ env_error' = TRUE
    /\ UNCHANGED <<others, server, ws_written, made, timer_armed, parsed, transport, detector, httpvars, ws_accepts, ws_writes, ws_rd,
                   ws_buffer, crashed, delivered, reads, handled, writes_started,
                   written, reads_issued, resumed, eof_calls, ws_created, ws_in, ws_echo>>

\* websocket_session::on_write without error: clear buffer_, do_read()
WsOnWriteOk ==
    /\ ~crashed /\ ~sock_dead
    /\ \E i \in 1..Len(ws_writes) :
          /\ ws_writes' = Without(ws_writes, i)
          /\ ws_written' = Append(ws_written, ws_writes[i])
    /\ ws_buffer' = ClearBuffer(ws_buffer)
    /\ ws_reads' = ws_reads + 1
    /\ UNCHANGED <<others, server, ended, made, expiry, parsed, transport, detector, httpvars, ws_accepts, ws_rd, crashed,
                   history>>

\* websocket_session::on_write with an error: return fail(ec, "write");
WsOnWriteErr ==
    /\ ~crashed
    /\ \E i \in 1..Len(ws_writes) : ws_writes' = Without(ws_writes, i)
    /\ \E ec \in IoErrors(FALSE, FALSE) :
          /\ reports' = fail(ec, "write")
          /\ suppressed' = Suppressed(ec, "write")
          /\ ws_end' = "failed"
          /\ sock_dead' = (sock_dead \/ Kills(ec))
    /\ env_error' = TRUE
    /\ UNCHANGED <<others, server, ws_written, made, timer_armed, parsed, transport, detector, httpvars, ws_accepts, ws_reads, ws_rd,
                   ws_buffer, crashed, delivered, reads, handled, writes_started,
                   written, reads_issued, resumed, eof_calls, ws_created, ws_in, ws_echo>>

\* ------------------------------------------------------------ specification
Next ==
    \/ PeerClose
    \/ DetectRun
    \/ DetectReadSome
    \/ OnDetectErr
    \/ OnDetectOk
    \/ HandshakeReadSome
    \/ OnHandshakeOk
    \/ OnHandshakeErr
    \/ HttpReadSome
    \/ OnReadOk
    \/ OnReadEof
    \/ OnReadBodyLimit
    \/ OnReadErr
    \/ OnWriteOk
    \/ OnWriteErr
    \/ OnShutdown
    \/ WsOnAcceptOk
    \/ WsOnAcceptErr
    \/ WsReadSome
    \/ WsOnReadOk
    \/ WsOnReadClosed
    \/ WsOnReadErr
    \/ WsOnWriteOk
    \/ WsOnWriteErr

Spec == Init /\ [][Next]_vars

\* ====================================================== main and the listener
\* The server process from the construction of the listener to the return of
\* main(); an accepted connection is followed only as far as "its session is
\* still running".  fail() prints into reports.
session == <<ws_written, ended, transport, expiry, detector, made, httpvars, wsvars, delivered,
             reads, handled, writes_started, written, reads_issued, resumed,
             eof_calls, ws_created, ws_in, ws_echo, env_error, parsed>>
conn == <<session, crashed>>

ServerInit ==
    /\ tls = FALSE
    /\ ConnInit
    /\ NoCall
    /\ main_pc = "start"
    /\ exit_code = "none"
    /\ acceptor_ = "closed"
    /\ accepts_pending = 0
    /\ accepts_issued = 0
    /\ accept_done = 0
    /\ detectors = 0
    /\ inflight = 0

\* The steps of the listener constructor, in order.
SetupSteps == <<"open", "set_option", "bind", "listen">>

\* listener::listener left at step k with an error: the acceptor is closed
\* when open failed and open but not listening when a later step failed.
AcceptorAfter(failed) ==
    IF failed = 0 THEN "listening" ELSE IF failed = 1 THEN "closed" ELSE "open"

\* listener::listener: open, set_option(reuse_address), bind, listen; the
\* first step that fails is reported and the constructor returns.
ListenerConstruct ==
    /\ main_pc = "start"
    /\ \E failed \in 0..Len(SetupSteps) :
          /\ acceptor_' = AcceptorAfter(failed)
          /\ reports' = IF failed = 0 THEN reports
                        ELSE fail("io_error", SetupSteps[failed])
    /\ main_pc' = "constructed"
    /\ UNCHANGED <<others, conn, exit_code, accepts_pending, accepts_issued, accept_done,
                   detectors, inflight>>

\* main: make_shared<listener>(...)->run() -> do_accept; then the signal_set
\* is armed and the threads enter ioc.run().
ListenerRun ==
    /\ main_pc = "constructed"
    /\ main_pc' = "serving"
    /\ accepts_pending' = accepts_pending + 1
    /\ accepts_issued' = accepts_issued + 1
    /\ UNCHANGED <<others, conn, exit_code, acceptor_, accept_done, detectors, inflight,
                   reports>>

\* An on_accept that accepts again only after a successful accept.
AcceptAgainOnSuccess(ok) == IF ok THEN 1 ELSE 0

\* on_accept: do_accept() follows the if/else, whatever ec was.
AcceptAgain(ok) == 1

\* listener::on_accept without error: make a detect_session and run it, then
\* do_accept.
OnAcceptOk ==
    /\ main_pc = "serving" /\ accepts_pending > 0
    /\ acceptor_ = "listening"
    /\ accept_done < MaxAccepts
    /\ accept_done' = accept_done + 1
    /\ detectors' = detectors + 1
    /\ inflight' = inflight + 1
    /\ accepts_pending' = accepts_pending - 1 + AcceptAgain(TRUE)
    /\ accepts_issued' = accepts_issued + AcceptAgain(TRUE)
    /\ UNCHANGED <<others, conn, main_pc, exit_code, acceptor_, reports>>

\* listener::on_accept with an error: fail(ec, "accept"), then do_accept.  On
\* an acceptor that is not listening every accept completes with an error.
OnAcceptErr ==
    /\ main_pc = "serving" /\ accepts_pending > 0
    /\ accept_done < MaxAccepts
    /\ accept_done' = accept_done + 1
    /\ reports' = fail("io_error", "accept")
    /\ accepts_pending' = accepts_pending - 1 + AcceptAgain(FALSE)
    /\ accepts_issued' = accepts_issued + AcceptAgain(FALSE)
    /\ UNCHANGED <<others, conn, main_pc, exit_code, acceptor_, detectors, inflight>>

\* The session of an accepted connection finished or timed out: its last
\* completion handler returned.
SessionDone ==
    /\ main_pc = "serving" /\ inflight > 0
    /\ inflight' = inflight - 1
    /\ UNCHANGED <<others, conn, main_pc, exit_code, acceptor_, accepts_pending,
                   accepts_issued, accept_done, detectors, reports>>

\* SIGINT or SIGTERM: the signal handler calls ioc.stop(); ioc.run() returns
\* in every thread without running another completion handler.
Signal ==
    /\ main_pc = "serving"
    /\ main_pc' = "stopped"
    /\ UNCHANGED <<others, conn, exit_code, acceptor_, accepts_pending, accepts_issued,
                   accept_done, detectors, inflight, reports>>

\* main: the threads are joined; return EXIT_SUCCESS.
MainReturn ==
    /\ main_pc = "stopped"
    /\ main_pc' = "exited"
    /\ exit_code' = "EXIT_SUCCESS"
    /\ UNCHANGED <<others, conn, acceptor_, accepts_pending, accepts_issued, accept_done,
                   detectors, inflight, reports>>

ServerNext ==
    \/ ListenerConstruct
    \/ ListenerRun
    \/ OnAcceptOk
    \/ OnAcceptErr
    \/ SessionDone
    \/ Signal
    \/ MainReturn

ServerSpec == ServerInit /\ [][ServerNext]_vars

\* ------------------------------------------------------------ main: startup
\* main() from its first statement: the command line is checked and
\* converted, then the listener is constructed and run as above.
AddressArgs == {"0.0.0.0", "localhost"}

PortArgs == {"8080", "abc", "70000"}

DocRootArgs == {".", "/nonexistent"}

ThreadArgs == {"1", "x", "0"}

\* std::atoi: the leading decimal digits, 0 when there are none
atoi(str) ==
    CASE str = "8080" -> 8080
      [] str = "70000" -> 70000
      [] str = "1" -> 1
      [] str = "0" -> 0
      [] OTHER -> 0

\* net::ip::make_address parses numeric addresses only; it throws on
\* anything else
MakesAddress(str) == str = "0.0.0.0"

\* static_cast<unsigned short>(std::atoi(argv[2]))
PortOf(str) == atoi(str) % 65536

\* std::max<int>(1, std::atoi(argv[4]))
ThreadsOf(str) == IF atoi(str) > 1 THEN atoi(str) ELSE 1

NoCfg == [address |-> "none", port |-> 0, doc_root |-> "none", threads |-> 0]

StartupInit ==
    /\ tls = FALSE
    /\ ConnInit
    /\ Idle
    /\ argv \in [argc : {4, 5}, address : AddressArgs, port : PortArgs,
                 doc_root : DocRootArgs, threads : ThreadArgs]
    /\ cfg = NoCfg
    /\ main_pc = "main"
    /\ exit_code = "none"
    /\ acceptor_ = "closed"
    /\ accepts_pending = 0
    /\ accepts_issued = 0
    /\ accept_done = 0
    /\ detectors = 0
    /\ inflight = 0

\* main, lines 34-45: argc != 5 prints the usage and returns EXIT_FAILURE;
\* make_address throws on a malformed address and nothing catches it
\* (std::terminate); port, doc_root and threads are converted, not checked.
ParseArgs ==
    /\ main_pc = "main"
    /\ IF argv.argc # 5
       THEN /\ main_pc' = "exited"
            /\ exit_code' = "EXIT_FAILURE"
            /\ UNCHANGED cfg
       ELSE IF ~MakesAddress(argv.address)
       THEN /\ main_pc' = "exited"
            /\ exit_code' = "terminate"
            /\ UNCHANGED cfg
       ELSE /\ main_pc' = "start"
            /\ cfg' = [address |-> argv.address, port |-> PortOf(argv.port),
                       doc_root |-> argv.doc_root, threads |-> ThreadsOf(argv.threads)]
            /\ UNCHANGED exit_code
    /\ UNCHANGED <<handler, peer, argv, conn, reports, acceptor_, accepts_pending,
                   accepts_issued, accept_done, detectors, inflight>>

StartupNext ==
    \/ ParseArgs
    \/ ServerNext

StartupSpec == StartupInit /\ [][StartupNext]_vars

\* ------------------------------------------------------------ handle_request
\* One call of handle_request(doc_root, req), statement by statement.  The
\* request target and doc_root are sequences of characters; a message
\* carries its HTTP version and the tokens of its Connection field, which
\* together decide keep-alive.
MaxTarget == 3

TargetChars == {"/", ".", "a"}

Targets == UNION {[1..n -> TargetChars] : n \in 0..MaxTarget}

Methods == {"get", "head", "post"}

Versions == {10, 11}

ConnectionTokens == {"close", "keep-alive"}

DocRoots == {<<>>, <<"r">>, <<"r", "/">>}

DiskOutcomes == {"ok", "no_such_file_or_directory", "permission_denied"}

\* message::keep_alive(): HTTP/1.0 keeps the connection only with
\* "keep-alive", HTTP/1.1 keeps it unless "close".
keep_alive(m) ==
    IF m.version < 11 THEN "keep-alive" \in m.connection
                      ELSE "close" \notin m.connection

\* A response whose Connection field is left as constructed.
KeepAliveUnset(connection, version, value) == connection

\* message::keep_alive(bool): rewrite the Connection field for the version.
set_keep_alive(connection, version, value) ==
    IF version < 11
    THEN IF value THEN (connection \ {"close"}) \cup {"keep-alive"}
                  ELSE connection \ {"close", "keep-alive"}
    ELSE IF value THEN connection \ {"close", "keep-alive"}
                  ELSE (connection \ {"keep-alive"}) \cup {"close"}

\* http::response<...> res{status, req.version()}; res.keep_alive(req.keep_alive())
Response(req, status, body) ==
    [status |-> status, version |-> req.version,
     connection |-> set_keep_alive({}, req.version, keep_alive(req)),
     body |-> body]

\* the bad_request lambda
bad_request(req, why) == Response(req, 400, why)

\* the not_found lambda
not_found(req) == Response(req, 404, "not found")

\* the server_error lambda
server_error(req) == Response(req, 500, "error")

\* A target test without the directory-traversal check.
NoTraversalCheck(target) == target = <<>> \/ target[1] # "/"

\* req.target().empty() || req.target()[0] != '/' ||
\* req.target().find("..") != npos
IllegalTarget(target) ==
    \/ target = <<>>
    \/ target[1] # "/"
    \/ \E i \in 1..(Len(target) - 1) : target[i] = "." /\ target[i + 1] = "."

\* path_cat, POSIX branch
path_cat(base, path) ==
    IF base = <<>> THEN path
    ELSE (IF base[Len(base)] = "/" THEN SubSeq(base, 1, Len(base) - 1) ELSE base) \o path

HandlerInit ==
    /\ tls = FALSE
    /\ ConnInit
    /\ Serving
    /\ Started
    /\ peer = [c \in Conns |-> FreePeer]
    /\ h_doc_root \in DocRoots
    /\ h_req \in [method : Methods, target : Targets, version : Versions,
                  connection : SUBSET ConnectionTokens]
    /\ h_disk \in DiskOutcomes
    /\ h_pc = "method"
    /\ h_path = <<>>
    /\ h_opens = 0
    /\ h_ec = "none"
    /\ h_res = <<>>

\* if(method != get && method != head) return bad_request("Unknown HTTP-method");
CheckMethod ==
    /\ h_pc = "method"
    /\ IF h_req.method # "get" /\ h_req.method # "head"
       THEN /\ h_res' = Append(h_res, bad_request(h_req, "Unknown HTTP-method"))
            /\ h_pc' = "returned"
       ELSE /\ h_pc' = "target"
            /\ UNCHANGED h_res
    /\ UNCHANGED <<server, conn, reports, peer, startup, h_doc_root, h_req, h_disk, h_path, h_opens, h_ec>>

\* if(target is illegal) return bad_request("Illegal request-target");
CheckTarget ==
    /\ h_pc = "target"
    /\ IF IllegalTarget(h_req.target)
       THEN /\ h_res' = Append(h_res, bad_request(h_req, "Illegal request-target"))
            /\ h_pc' = "returned"
       ELSE /\ h_pc' = "path"
            /\ UNCHANGED h_res
    /\ UNCHANGED <<server, conn, reports, peer, startup, h_doc_root, h_req, h_disk, h_path, h_opens, h_ec>>

\* path = path_cat(doc_root, target); if(target.back() == '/') path.append("index.html");
BuildPath ==
    /\ h_pc = "path"
    /\ LET path == path_cat(h_doc_root, h_req.target)
       IN h_path' = IF h_req.target[Len(h_req.target)] = "/"
                    THEN Append(path, "index.html") ELSE path
    /\ h_pc' = "open"
    /\ UNCHANGED <<server, conn, reports, peer, startup, h_doc_root, h_req, h_disk, h_opens, h_ec, h_res>>

\* body.open(path.c_str(), beast::file_mode::scan, ec);
OpenFile ==
    /\ h_pc = "open"
    /\ h_opens' = h_opens + 1
    /\ h_ec' = h_disk
    /\ h_pc' = "opened"
    /\ UNCHANGED <<server, conn, reports, peer, startup, h_doc_root, h_req, h_disk, h_path, h_res>>

\* if(ec == no_such_file_or_directory) return not_found(req.target());
ReturnNotFound ==
    /\ h_pc = "opened" /\ h_ec = "no_such_file_or_directory"
    /\ h_res' = Append(h_res, not_found(h_req))
    /\ h_pc' = "returned"
    /\ UNCHANGED <<server, conn, reports, peer, startup, h_doc_root, h_req, h_disk, h_path, h_opens, h_ec>>

\* if(ec) return server_error(ec.message());
ReturnServerError ==
    /\ h_pc = "opened" /\ h_ec \notin {"ok", "no_such_file_or_directory"}
    /\ h_res' = Append(h_res, server_error(h_req))
    /\ h_pc' = "returned"
    /\ UNCHANGED <<server, conn, reports, peer, startup, h_doc_root, h_req, h_disk, h_path, h_opens, h_ec>>

\* if(method == head) { response<empty_body> res{ok, version}; ... return res; }
ReturnHead ==
    /\ h_pc = "opened" /\ h_ec = "ok" /\ h_req.method = "head"
    /\ h_res' = Append(h_res, Response(h_req, 200, "empty"))
    /\ h_pc' = "returned"
    /\ UNCHANGED <<server, conn, reports, peer, startup, h_doc_root, h_req, h_disk, h_path, h_opens, h_ec>>

\* response<file_body> res{body, ok, version}; ... return res;
ReturnGet ==
    /\ h_pc = "opened" /\ h_ec = "ok" /\ h_req.method # "head"
    /\ h_res' = Append(h_res, Response(h_req, 200, "file"))
    /\ h_pc' = "returned"
    /\ UNCHANGED <<server, conn, reports, peer, startup, h_doc_root, h_req, h_disk, h_path, h_opens, h_ec>>

HandlerNext ==
    \/ CheckMethod
    \/ CheckTarget
    \/ BuildPath
    \/ OpenFile
    \/ ReturnNotFound
    \/ ReturnServerError
    \/ ReturnHead
    \/ ReturnGet

HandlerSpec == HandlerInit /\ [][HandlerNext]_vars

\* ------------------------------------------------- connections side by side
\* MaxConns connections accepted by one listener, each with its own
\* detect_session, http session and websocket session.  A session is reduced
\* to what its handlers read and write: the stage, whether buffer_ holds
\* bytes, the size of response_queue_, the set of outstanding operations and
\* the number of fail() calls.  Every handler runs on the strand of its own
\* connection and touches only members of its own session.
accept_loop == <<main_pc, acceptor_, accepts_pending, accepts_issued, accept_done>>

PairInit ==
    /\ tls = FALSE
    /\ ConnInit
    /\ Started
    /\ h_doc_root = <<>>
    /\ h_req = [method |-> "get", target |-> <<>>, version |-> 11, connection |-> {}]
    /\ h_disk = "ok"
    /\ h_pc = "idle"
    /\ h_path = <<>>
    /\ h_opens = 0
    /\ h_ec = "none"
    /\ h_res = <<>>
    /\ peer = [c \in Conns |-> FreePeer]
    /\ main_pc = "serving"
    /\ exit_code = "none"
    /\ acceptor_ = "listening"
    /\ accepts_pending = 1
    /\ accepts_issued = 1
    /\ accept_done = 0
    /\ detectors = 0
    /\ inflight = 0

\* listener::on_accept without error: a detect_session is made for the new
\* socket and run, then do_accept.
PeerAccept ==
    /\ ~crashed /\ main_pc = "serving" /\ accepts_pending > 0
    /\ \E c \in Conns :
          /\ peer[c].stage = "free"
          /\ \A d \in Conns : d < c => peer[d].stage # "free"
          /\ peer' = [peer EXCEPT ![c] = [FreePeer EXCEPT !.stage = "detect",
                                                          !.ops = {"detect"}]]
    /\ accept_done' = accept_done + 1
    /\ detectors' = detectors + 1
    /\ inflight' = inflight + 1
    /\ accepts_pending' = accepts_pending - 1 + AcceptAgain(TRUE)
    /\ accepts_issued' = accepts_issued + AcceptAgain(TRUE)
    /\ UNCHANGED <<handler, startup, conn, reports, main_pc, exit_code, acceptor_>>

\* detect_session::on_detect without error: the http session of the
\* detected kind takes the stream and the buffer.
PeerDetectOk(c) ==
    /\ ~crashed /\ "detect" \in peer[c].ops
    /\ \E result \in BOOLEAN, left \in 0..1 :
          peer' = [peer EXCEPT ![c] =
                      [@ EXCEPT !.tls = result,
                                !.stage = IF result THEN "handshake" ELSE "http",
                                !.buffer = left,
                                !.ops = {IF result THEN "handshake" ELSE "read"}]]
    /\ UNCHANGED <<handler, startup, conn, reports, server>>

\* ssl_http_session::on_handshake without error
PeerHandshakeOk(c) ==
    /\ ~crashed /\ "handshake" \in peer[c].ops
    /\ peer' = [peer EXCEPT ![c] = [@ EXCEPT !.stage = "http", !.buffer = 0,
                                              !.ops = {"read"}]]
    /\ UNCHANGED <<handler, startup, conn, reports, server>>

\* http_session::on_read without error: an upgrade hands the stream to a
\* websocket session, any other request is answered through the queue.
PeerReadOk(c) ==
    /\ ~crashed /\ "read" \in peer[c].ops
    /\ \E up \in BOOLEAN, left \in 0..1 :
          LET p == peer[c]
              size == p.queue + 1
          IN peer' = [peer EXCEPT ![c] =
                IF up
                THEN [p EXCEPT !.stage = "websocket", !.buffer = 0,
                               !.ops = (@ \ {"read"}) \cup {"ws_accept"}]
                ELSE [p EXCEPT !.queue = size, !.buffer = left,
                               !.ops = ((@ \ {"read"})
                                        \cup (IF ReadNext(size) THEN {"read"} ELSE {}))
                                        \cup (IF QueueStartsWrite(size) THEN {"write"} ELSE {})]]
    /\ UNCHANGED <<handler, startup, conn, reports, server>>

\* http_session::on_read with end_of_stream: do_eof
PeerReadEof(c) ==
    /\ ~crashed /\ "read" \in peer[c].ops
    /\ peer' = [peer EXCEPT ![c] =
                  [@ EXCEPT !.ops = (@ \ {"read"})
                                    \cup (IF peer[c].tls THEN {"shutdown"} ELSE {})]]
    /\ UNCHANGED <<handler, startup, conn, reports, server>>

\* http_session::on_write without error.  After an upgrade the stream is
\* moved-from: undefined behaviour, which goes on or ends the process.
PeerWriteOk(c) ==
    /\ ~crashed /\ "write" \in peer[c].ops
    /\ \E keep \in BOOLEAN :
          LET p == peer[c]
              size == p.queue - 1
          IN peer' = [peer EXCEPT ![c] =
                IF ClosesAfterWrite(keep)
                THEN [p EXCEPT !.ops = (@ \ {"write"})
                                       \cup (IF p.tls THEN {"shutdown"} ELSE {})]
                ELSE [p EXCEPT !.queue = size,
                               !.ops = ((@ \ {"write"})
                                        \cup (IF ResumeRead(p.queue) THEN {"read"} ELSE {}))
                                        \cup (IF size > 0 THEN {"write"} ELSE {})]]
    /\ IF peer[c].stage = "websocket"
       THEN crashed' \in BOOLEAN
       ELSE crashed' = crashed
    /\ UNCHANGED <<handler, startup, session, reports, server>>

\* ssl_http_session::on_shutdown without error
PeerShutdownOk(c) ==
    /\ ~crashed /\ "shutdown" \in peer[c].ops
    /\ peer' = [peer EXCEPT ![c] = [@ EXCEPT !.ops = @ \ {"shutdown"}]]
    /\ UNCHANGED <<handler, startup, conn, reports, server>>

\* websocket_session::on_accept, on_read, on_write without error, and
\* on_read with websocket::error::closed
PeerWsStep(c) ==
    /\ ~crashed
    /\ \/ /\ "ws_accept" \in peer[c].ops
          /\ peer' = [peer EXCEPT ![c] = [@ EXCEPT !.ops = (@ \ {"ws_accept"}) \cup {"ws_read"}]]
       \/ /\ "ws_read" \in peer[c].ops
          /\ peer' = [peer EXCEPT ![c] = [@ EXCEPT !.buffer = 1,
                                                    !.ops = (@ \ {"ws_read"}) \cup {"ws_write"}]]
       \/ /\ "ws_write" \in peer[c].ops
          /\ peer' = [peer EXCEPT ![c] = [@ EXCEPT !.buffer = 0,
                                                    !.ops = (@ \ {"ws_write"}) \cup {"ws_read"}]]
       \/ /\ "ws_read" \in peer[c].ops
          /\ peer' = [peer EXCEPT ![c] = [@ EXCEPT !.ops = @ \ {"ws_read"}]]
    /\ UNCHANGED <<handler, startup, conn, reports, server>>

\* A fail() that ends the process' event loop.
StopOnFail(pc) == "stopped"

\* fail() prints and returns: main goes on as before.
AfterFail(pc) == pc

\* An operation of connection c completes with an error: every handler
\* calls fail(ec, what) and returns, issuing nothing.
PeerFail(c) ==
    /\ ~crashed
    /\ \E op \in peer[c].ops :
          peer' = [peer EXCEPT ![c] = [@ EXCEPT !.ops = @ \ {op},
                                                !.failed = @ + 1]]
    /\ main_pc' = AfterFail(main_pc)
    /\ UNCHANGED <<handler, startup, conn, reports, exit_code, acceptor_, accepts_pending,
                   accepts_issued, accept_done, detectors, inflight>>

PairNext ==
    \/ PeerAccept
    \/ \E c \in Conns : PeerDetectOk(c)
    \/ \E c \in Conns : PeerHandshakeOk(c)
    \/ \E c \in Conns : PeerReadOk(c)
    \/ \E c \in Conns : PeerReadEof(c)
    \/ \E c \in Conns : PeerWriteOk(c)
    \/ \E c \in Conns : PeerShutdownOk(c)
    \/ \E c \in Conns : PeerWsStep(c)
    \/ \E c \in Conns : PeerFail(c)

PairSpec == PairInit /\ [][PairNext]_vars

\* =================================================================== claims
NotUpgrade(r) == ~r.upgrade

\* The ordinary (non-upgrade) requests read so far, in the order they were read.
OrdinaryReads == SelectSeq(reads, NotUpgrade)

Last(w) == w[Len(w)]

\* C1: the responses whose transmission was started are, in order, the
\* responses to a prefix of the ordinary requests in the order they were read:
\* the k-th write is the response to the k-th request, none skipped,
\* duplicated or reordered.
C1_ResponseOrder ==
    /\ Len(writes_started) <= Len(OrdinaryReads)
    /\ \A k \in 1..Len(writes_started) :
          writes_started[k] = handle_request(OrdinaryReads[k])

\* Three writes were started while later responses of the pipeline wait.
C1_Witness ==
    /\ Len(writes_started) >= 3
    /\ Len(response_queue_) >= 3
    /\ Len(writing) = 1

\* C2: the queue never holds more than queue_limit responses, no read is
\* outstanding while it holds queue_limit, and at queue_limit a read is issued
\* only by the write completion that pops a response.
C2_QueueBound ==
    /\ [](/\ Len(response_queue_) <= queue_limit
          /\ (Len(response_queue_) = queue_limit => http_reads = 0))
    /\ [][(Len(response_queue_) = queue_limit /\ reads_issued' # reads_issued)
            => /\ Len(written') = Len(written) + 1
               /\ Len(response_queue_') = queue_limit - 1]_vars

\* The queue was full and the write completion that freed a slot resumed reading.
C2_Witness ==
    /\ resumed >= 1
    /\ http_reads = 1
    /\ Len(response_queue_) = queue_limit - 1

\* C3: at most one async_write of the http session is in flight; a write is
\* started by queue_write only on an empty queue, and otherwise only in the
\* step in which the previous write completes.
C3_OneWriteInFlight ==
    /\ [](Len(writing) <= 1)
    /\ [][writes_started' # writes_started
            => \/ response_queue_ = <<>> /\ Len(response_queue_') = 1
               \/ Len(written') = Len(written) + 1]_vars

\* A write is in flight after an earlier one completed, with more queued.
C3_Witness ==
    /\ Len(writing) = 1
    /\ Len(written) >= 1
    /\ Len(response_queue_) >= 2

\* Some response with the close directive was written successfully.
CloseWritten == \E k \in 1..Len(written) : ~written[k].keep_alive

\* C4: when the write of a close response completes, the sending side of the
\* transport is shut down (or its TLS shutdown started) and no other write is
\* started afterwards; the completion of a keep-alive response calls no do_eof.
C4_CloseTearsDown ==
    [][/\ (Len(written') = Len(written) + 1 /\ ~Last(written').keep_alive)
            => send_shutdown'
       /\ (Len(written') = Len(written) + 1 /\ Last(written').keep_alive)
            => eof_calls' = eof_calls
       /\ CloseWritten => writes_started' = writes_started]_vars

\* C5: every successful read either invokes handle_request once and pushes its
\* response, or (upgrade) makes one websocket session; never both, never
\* neither, and the kind of the request decides which.
C5_ExactlyOne ==
    /\ [](Len(reads) = Len(handled) + ws_created)
    /\ [][Len(reads') = Len(reads) + 1
            => IF Last(reads').upgrade
               THEN /\ ws_created' = ws_created + 1
                    /\ handled' = handled
                    /\ response_queue_' = response_queue_
               ELSE /\ ws_created' = ws_created
                    /\ handled' = Append(handled, handle_request(Last(reads')))
                    /\ response_queue_' =
                          Append(response_queue_, handle_request(Last(reads')))]_vars

\* An upgrade was read after ordinary requests of the same connection.
C5_Witness ==
    /\ ws_created = 1
    /\ Len(handled) >= 2
    /\ Last(reads).upgrade

\* The stages that have an operation outstanding on the connection.
BusyStages ==
    {st \in {"detect", "http", "ws"} :
        \/ st = "detect" /\ det_state = "detecting"
        \/ st = "http" /\ (hs_pending \/ http_reads > 0 \/ writing # <<>>
                             \/ shutdown_pending > 0)
        \/ st = "ws" /\ (ws_accepts > 0 \/ ws_reads > 0 \/ ws_writes # <<>>)}

\* C6: at most one stage has an operation outstanding on the connection; after
\* the upgrade the http session has none in flight and starts none.
C6_OneStageAtATime ==
    /\ Cardinality(BusyStages) <= 1
    /\ ws_created > 0 => (http_reads = 0 /\ writing = <<>>)

\* C7: across the detector hand-off no unit is lost, duplicated or reordered:
\* what the session's consumers received, followed by what its buffer_ holds,
\* is the stream as read from the socket.  While the handshake is pending the
\* TLS engine has taken exactly bytes_used units from the front of buffer_.
C7_HandoffPreservesStream ==
    stream_owner = "http" =>
        IF hs_pending
        THEN /\ hs_used <= Len(buffer_)
             /\ delivered \o Consume(buffer_, hs_used) = Stream(1, net_pos)
             /\ SubSeq(delivered, 1, hs_used) = SubSeq(buffer_, 1, hs_used)
        ELSE delivered \o buffer_ = Stream(1, net_pos)

\* The handshake used the front of the detection buffer and left one unit in
\* it, which the first http read will parse.
C7_Witness ==
    /\ stream_owner = "http" /\ http_kind = "ssl" /\ ~hs_pending
    /\ hs_used = HsLen
    /\ http_reads = 1 /\ reads = <<>>
    /\ buffer_ = <<HsLen + 1>>

\* C8: after the upgrade the websocket session receives the stream without a
\* gap: the units the http session had read but not parsed come first.
C8_UpgradeKeepsBytes ==
    stream_owner = "ws" => delivered \o ws_rd = Stream(1, net_pos)

\* Nothing is outstanding on the http side of the connection.
Quiescent ==
    /\ det_state = "done" /\ ~hs_pending
    /\ http_reads = 0 /\ writing = <<>> /\ shutdown_pending = 0

\* C9: without injected failure, timeout, close directive (or upgrade), once
\* the session has nothing outstanding every response it enqueued was
\* transmitted in full.
C9_AllResponsesSent ==
    (/\ Quiescent /\ ~env_error /\ ~crashed /\ ws_created = 0
     /\ \A k \in 1..Len(handled) : handled[k].keep_alive)
        => written = handled

\* C10: once do_eof was called, no read is issued, no write is started and
\* handle_request is not invoked.
C10_NothingAfterClosing ==
    [][eof_calls > 0 =>
          /\ reads_issued' = reads_issued
          /\ writes_started' = writes_started
          /\ handled' = handled]_vars

\* The last http read completed with a failure other than end of stream.
ReadFailed == read_ec \notin {"none", "ok", "end_of_stream"}

\* C11: when an http read completes with a failure other than end of stream,
\* the failure is reported and the handler is not invoked; from then on no
\* read is issued, the handler is not invoked and no response write is
\* started, not even for the responses already queued.
C11_ReadFailureAborts ==
    /\ [][(~ReadFailed /\ ReadFailed')
            => /\ reports' = Append(reports, "read")
               /\ handled' = handled]_vars
    /\ [][ReadFailed
            => /\ reads_issued' = reads_issued
               /\ handled' = handled
               /\ writes_started' = writes_started]_vars

\* The request carries a body above the parser's limit.
Oversized(req) == req.body > body_limit

\* The unit ids of the requests or responses in sequence w.
Ids(w) == {w[k].id : k \in 1..Len(w)}

\* C12: a request whose body exceeds body_limit never reaches handle_request:
\* its read completes with an error that is reported, it is not among the
\* requests read and no response to it exists, wherever it stands in the
\* pipeline.
C12_OversizedNeverHandled ==
    /\ [](Oversized(last_req)
            => /\ read_ec = "body_limit"
               /\ last_req.id \notin Ids(reads)
               /\ last_req.id \notin Ids(handled))
    /\ [][(last_req' # last_req /\ Oversized(last_req'))
            => /\ handled' = handled
               /\ response_queue_' = response_queue_
               /\ reports' = Append(reports, "read")]_vars

\* The third request of a pipeline was oversized; responses to the first two
\* were produced.
C12_Witness ==
    /\ Oversized(last_req)
    /\ Len(handled) = 2
    /\ read_ec = "body_limit"

\* The request violates the protocol: oversized body, illegal request target
\* or a method the server does not know.
ProtocolViolation(req) ==
    \/ Oversized(req)
    \/ req.target = "illegal"
    \/ req.method \notin {"get", "head", "none"}

\* C13: every protocol violation is answered with an error response that is
\* enqueued on the same connection, and the write of a response closes the
\* connection only if the response carries the close directive.
C13_ViolationAnswered ==
    /\ [][(last_req' # last_req /\ ProtocolViolation(last_req'))
            => /\ Len(handled') = Len(handled) + 1
               /\ Last(handled').id = last_req'.id
               /\ last_status' >= 400
               /\ response_queue_' = Append(response_queue_, Last(handled'))]_vars
    /\ [][(Len(written') = Len(written) + 1 /\ Last(written').keep_alive)
            => eof_calls' = eof_calls]_vars

\* The detection ended with an error.
DetectFailed == det_state = "done" /\ made = <<>>

\* C14: a detection that succeeds constructs exactly one session, the kind
\* decided by the leading bytes alone: the TLS session when they are a TLS
\* handshake record, the plain session otherwise; nothing is constructed
\* before the detection ends or after the session was made.
C14_OneSessionByDetection ==
    /\ [](/\ Len(made) <= 1
          /\ det_state # "done" => made = <<>>
          /\ made # <<>> => /\ made = <<IF tls THEN "ssl" ELSE "plain">>
                            /\ http_kind = made[1])
    /\ [][(det_state = "detecting" /\ det_state' = "done" /\ reports' = reports)
            => /\ Len(made') = 1
               /\ stream_owner' = "http"
               /\ buffer_' = det_buffer]_vars

\* A TLS connection was detected and its session has finished the handshake.
C14_Witness ==
    /\ tls /\ made = <<"ssl">>
    /\ ~hs_pending /\ http_reads = 1

\* C15: a detection that completes with an error (the detection timeout
\* included) reports the failure once, constructs no session and reads no
\* more from the connection.
C15_DetectFailureStops ==
    /\ [][(det_state = "detecting" /\ det_state' = "done" /\ made' = <<>>)
            => reports' = Append(reports, "detect")]_vars
    /\ [](DetectFailed
            => /\ reports = <<"detect">>
               /\ http_kind = "none" /\ stream_owner = "none"
               /\ ~hs_pending /\ http_reads = 0 /\ writing = <<>>)
    /\ [][DetectFailed => UNCHANGED <<det_state, det_buffer, net_pos, made, reports>>]_vars

\* The detection timed out on a client that had sent nothing.
C15_Witness ==
    /\ DetectFailed
    /\ net_pos = 0 /\ sock_dead

\* C16: every accept completion, successful or failed, issues exactly one new
\* accept; a failed accept is reported and makes no detector, a successful
\* one makes exactly one detector; while the server serves, one accept is
\* outstanding.
C16_AcceptLoopContinues ==
    /\ [][accept_done' = accept_done + 1
            => /\ accepts_issued' = accepts_issued + 1
               /\ accepts_pending' = accepts_pending
               /\ \/ /\ reports' = Append(reports, "accept")
                     /\ detectors' = detectors
                  \/ /\ reports' = reports
                     /\ detectors' = detectors + 1]_vars
    /\ [](main_pc = "serving" => accepts_pending = 1)
    /\ [](accepts_issued = accept_done + accepts_pending)

\* After a failed accept the listener accepted a connection.
C16_Witness ==
    /\ main_pc = "serving"
    /\ reports = <<"accept">>
    /\ detectors = 1 /\ accept_done = 2
    /\ accepts_pending = 1

\* The listener constructor returned with an error.
SetupFailed == main_pc # "start" /\ acceptor_ # "listening"

\* C17: when open, set_option, bind or listen fails, the failure is reported
\* exactly once, no accept loop is started and nothing else is reported for
\* the listener.
C17_SetupFailureIsFatal ==
    SetupFailed
        => /\ Len(reports) = 1
           /\ accepts_issued = 0 /\ accepts_pending = 0

\* C18: after SIGINT / SIGTERM no connection is accepted, and main returns
\* success only when every session that was in flight has finished or timed
\* out.
C18_GracefulStop ==
    /\ [][(main_pc = "stopped" \/ main_pc = "exited")
            => (accept_done' = accept_done /\ detectors' = detectors)]_vars
    /\ [](main_pc = "exited" => (exit_code = "EXIT_SUCCESS" /\ inflight = 0))

\* The session's first read, or its TLS handshake, ended with the timeout
\* before any request was read.
IdleTimedOut ==
    /\ http_kind # "none" /\ reads = <<>> /\ sock_dead
    /\ \/ read_ec = "timeout"
       \/ http_kind = "ssl" /\ reads_issued = 0 /\ ~hs_pending

\* C19: a connection past detection that sends nothing more does not stay
\* open: while its read or TLS handshake is outstanding the 30 s expiry is
\* set and its timeout completion can fire; once it has fired the session has
\* no operation outstanding and starts none.
C19_IdleTimesOut ==
    /\ []((stream_owner = "http" /\ (hs_pending \/ http_reads > 0)) => timer_armed)
    /\ []((stream_owner = "http" /\ http_reads > 0)
            => ENABLED (OnReadErr /\ read_ec' = "timeout"))
    /\ []((stream_owner = "http" /\ hs_pending) => ENABLED OnHandshakeErr)
    /\ [](IdleTimedOut
            => /\ Quiescent /\ response_queue_ = <<>>
               /\ ws_created = 0 /\ ws_accepts = 0)
    /\ [][IdleTimedOut
            => /\ reads_issued' = reads_issued
               /\ writes_started' = writes_started
               /\ eof_calls' = eof_calls
               /\ net_pos' = net_pos]_vars

\* A TLS client finished the handshake and then sent nothing: the read timed
\* out with nothing received.
C19_Witness ==
    /\ http_kind = "ssl" /\ read_ec = "timeout"
    /\ reads = <<>> /\ buffer_ = <<>>
    /\ net_pos = HsLen /\ ~peer_closed
    /\ reports = <<"read">>

\* C20: the k-th websocket message written is the k-th message read, payload
\* and text/binary flag alike; the completion of a write empties buffer_, so
\* that the next reply holds nothing of an earlier message, and issues the
\* next read.
C20_EchoesEachMessage ==
    /\ [](ws_echo = ws_in)
    /\ [](\A k \in 1..Len(ws_written) : ws_written[k] = ws_in[k])
    /\ [][Len(ws_written') = Len(ws_written) + 1
            => /\ ws_buffer' = <<>>
               /\ ws_reads' = ws_reads + 1]_vars
    /\ [][Len(ws_in') = Len(ws_in) + 1 => ws_buffer = <<>>]_vars

\* Two messages of different kind were echoed and the session reads again.
C20_Witness ==
    /\ Len(ws_written) = 2
    /\ ws_in[1].text /\ ~ws_in[2].text
    /\ ws_reads = 1 /\ ws_writes = <<>>

C22_ReadAfterAccept ==
    /\ [](ws_accepts > 0 => (ws_reads = 0 /\ ws_writes = <<>>
                              /\ ws_in = <<>> /\ ws_echo = <<>>))
    /\ [][(ws_in = <<>> /\ ws_reads = 0 /\ ws_reads' > 0)
            => (ws_accepts = 1 /\ ws_accepts' = 0 /\ ws_end' = "none"
                /\ reports' = reports /\ suppressed' = suppressed)]_vars
    /\ [][(ws_end = "none" /\ ws_end' = "rejected")
            => (ws_accepts = 1 /\ reports' = Append(reports, "accept"))]_vars
    /\ [](ws_end = "rejected" => (ws_accepts = 0 /\ ws_reads = 0 /\ ws_writes = <<>>
                                   /\ ws_in = <<>> /\ ws_echo = <<>>
                                   /\ ws_written = <<>>))

\* a failed accept after an ordinary request was served
C22_Witness ==
    /\ ws_end = "rejected" /\ ws_created = 1 /\ Len(handled) >= 1
    /\ reports = <<"accept">>

\* on_handshake was called with an error: it called fail(ec, "handshake")
HandshakeFailed ==
    \/ \E i \in 1..Len(reports) : reports[i] = "handshake"
    \/ \E i \in 1..Len(suppressed) : suppressed[i] = "handshake"

\* C23: on a TLS connection no HTTP read exists while the handshake is
\* outstanding; the first do_read is made in the step that completes the
\* handshake without error, after all handshake units arrived and with
\* buffer_ reduced by exactly bytes_used; after a failed handshake the
\* connection never issues a read, invokes the handler or starts a write.
C23_ReadAfterHandshake ==
    /\ [](hs_pending => (http_kind = "ssl" /\ reads_issued = 0 /\ http_reads = 0))
    /\ [][(http_kind = "ssl" /\ reads_issued = 0 /\ reads_issued' > 0)
            => (/\ hs_pending /\ ~hs_pending' /\ hs_got = HsLen
                /\ ~HandshakeFailed'
                /\ buffer_' = Consume(buffer_, hs_used)
                /\ reads_issued' = 1 /\ http_reads' = 1)]_vars
    /\ [](HandshakeFailed
            => (/\ ~hs_pending /\ reads_issued = 0 /\ http_reads = 0
                /\ reads = <<>> /\ handled = <<>>
                /\ writes_started = <<>> /\ writing = <<>> /\ written = <<>>
                /\ ws_created = 0))

\* the handshake took its bytes out of a buffer that held one unit more,
\* and the first read starts from that unit
C23_Witness ==
    /\ http_kind = "ssl" /\ ~hs_pending /\ ~HandshakeFailed
    /\ hs_used = HsLen /\ net_pos = HsLen + 1
    /\ buffer_ = Stream(HsLen + 1, HsLen + 1)
    /\ reads_issued = 1 /\ http_reads = 1

\* the target contains ".."
HasDotDot(t) == \E i \in 1..Len(t) : i < Len(t) /\ SubSeq(t, i, i + 1) = <<".", ".">>

\* C24: a GET or HEAD request whose target is empty, does not start with
\* "/" or contains ".." is answered with one 400 response, and when
\* handle_request returns it the path has not been built and no file has
\* been opened.
C24_IllegalTargetRejected ==
    (/\ h_pc = "returned"
     /\ h_req.method \in {"get", "head"}
     /\ (Len(h_req.target) = 0 \/ Head(h_req.target) # "/" \/ HasDotDot(h_req.target)))
    => (/\ Len(h_res) = 1 /\ h_res[1].status = 400
        /\ h_path = <<>> /\ h_opens = 0 /\ h_ec = "none")

\* the request GET /.. was answered
C24_Witness ==
    /\ h_pc = "returned" /\ h_req.method = "get"
    /\ h_req.target = <<"/", ".", ".">>
    /\ h_res # <<>> /\ h_res[1].status = 400

\* C25: handle_request returns exactly one response, none before it
\* returns, and that response's keep-alive equals the request's, whatever
\* the branch, the HTTP version and the request's Connection field.
C25_OneResponseSameKeepAlive ==
    /\ h_pc \in {"method", "target", "path", "open", "opened"} => h_res = <<>>
    /\ h_pc = "returned"
        => (/\ Len(h_res) = 1
            /\ h_res[1].status \in {200, 400, 404, 500}
            /\ h_res[1].version = h_req.version
            /\ keep_alive(h_res[1]) = keep_alive(h_req))

\* a 500 answer to an HTTP/1.1 request that asked to close
C25_Witness ==
    /\ h_pc = "returned" /\ h_res # <<>> /\ h_res[1].status = 500
    /\ h_req.version = 11 /\ "close" \in h_req.connection
    /\ ~keep_alive(h_res[1])

\* C26: a step in which a connection's operation fails (its session calls
\* fail) leaves every other connection's session as it was (stage, buffer,
\* queue, outstanding operations, failure count) and the accept loop as it
\* was (still serving, the same accept outstanding).
C26_FailureIsLocal ==
    [][\A c \in Conns :
          peer'[c].failed > peer[c].failed
          => (/\ \A d \in Conns \ {c} : peer'[d] = peer[d]
              /\ accept_loop' = accept_loop
              /\ crashed' = crashed)]_vars

\* the first connection failed twice (a read and a write) while the second
\* has a full queue with its write in flight, and the listener still waits
\* for the next connection
C26_Witness ==
    /\ peer[1].failed = 2 /\ peer[1].ops = {}
    /\ peer[2].queue = queue_limit /\ peer[2].ops = {"write"}
    /\ main_pc = "serving" /\ accepts_pending = 1

\* on_shutdown was called with an error other than a truncated stream: the
\* transport is dead after the step (a clean shutdown needs a live one)
ShutdownFailsLoudly ==
    /\ shutdown_pending' = shutdown_pending - 1
    /\ sock_dead' /\ suppressed' = suppressed

ValidArgs ==
    /\ argv.argc = 5
    /\ argv.address = "0.0.0.0"
    /\ argv.port = "8080"
    /\ argv.doc_root = "."
    /\ argv.threads = "1"

\* C28: with an invalid argument (address, port, document root or worker
\* count) main never constructs the listener: no socket is opened, no
\* accept is issued, and when the process has ended its status is not
\* success.
C28_InvalidArgsRejected ==
    ~ValidArgs
    => (/\ main_pc \in {"main", "start", "exited"}
        /\ acceptor_ = "closed" /\ accepts_issued = 0
        /\ (main_pc = "exited" => exit_code # "EXIT_SUCCESS"))

\* The http session holds the stream and serves: the handshake (if any) is
\* over, no operation failed, no request was rejected, do_eof was not
\* called and no upgrade took the stream.
Active ==
    /\ stream_owner = "http" /\ ~hs_pending /\ ~crashed
    /\ ~env_error /\ eof_calls = 0 /\ ws_created = 0

\* C29: while the http session is active, the step that enqueues a
\* response and leaves the queue below queue_limit issues the next read
\* itself, with no write completing in that step (a step that fills the
\* queue issues none); and whenever the queue is below queue_limit exactly
\* one read is outstanding.
C29_ReadsOnBelowLimit ==
    /\ [](Active /\ Len(response_queue_) < queue_limit => http_reads = 1)
    /\ [][(Active /\ Active' /\ Len(handled') > Len(handled))
            => (/\ Len(response_queue_') = Len(response_queue_) + 1
                /\ written' = written
                /\ IF Len(response_queue_') < queue_limit
                   THEN reads_issued' = reads_issued + 1 /\ http_reads' = 1
                   ELSE reads_issued' = reads_issued /\ http_reads' = 0)]_vars

\* queue_limit - 1 responses are queued, none written yet, and the read of
\* the next request is outstanding
C29_Witness ==
    /\ Active /\ Len(response_queue_) = queue_limit - 1
    /\ Len(handled) = queue_limit - 1 /\ written = <<>>
    /\ http_reads = 1 /\ Len(writing) = 1

WriteFailed == \E i \in 1..Len(reports) : reports[i] = "write"

\* C31: the step in which a response write fails reports the failure, and
\* from then on the session starts no write, issues no read and does not
\* invoke the request handler again.
C31_WriteFailureTearsDown ==
    /\ [][(~WriteFailed /\ WriteFailed') => reports' = Append(reports, "write")]_vars
    /\ [][WriteFailed => (/\ writes_started' = writes_started
                          /\ reads_issued' = reads_issued
                          /\ handled' = handled)]_vars

\* C32: an http session never has more than one request read outstanding;
\* on_write resumes reading only in a step that finds no read outstanding
\* (and the queue at queue_limit), and every do_read is issued with none
\* outstanding once its caller's own read has completed.
C32_OneReadOutstanding ==
    /\ [](http_reads \in {0, 1})
    /\ [][resumed' > resumed
            => (/\ http_reads = 0 /\ http_reads' = 1
                /\ Len(response_queue_) = queue_limit
                /\ reads_issued' = reads_issued + 1)]_vars
    /\ [][reads_issued' > reads_issued
            => (reads_issued' = reads_issued + 1 /\ http_reads' = 1)]_vars

\* reading was resumed by on_write after the queue had been full
C32_Witness ==
    /\ resumed = 1 /\ http_reads = 1
    /\ Len(response_queue_) = queue_limit - 1
    /\ reads_issued = queue_limit + 1

\* C33: a websocket session has at most one operation (accept, read or
\* write) outstanding; a write is started only by the step that completes
\* a read without error, and a read only by the step that completes the
\* accept or a write without error, so reads and writes alternate.
C33_ReadsAndWritesAlternate ==
    /\ [](ws_accepts + ws_reads + Len(ws_writes) <= 1)
    /\ [][Len(ws_echo') > Len(ws_echo)
            => (/\ ws_reads = 1 /\ ws_reads' = 0
                /\ Len(ws_in') = Len(ws_in) + 1
                /\ Len(ws_echo') = Len(ws_echo) + 1
                /\ Len(ws_writes') = 1
                /\ reports' = reports /\ suppressed' = suppressed)]_vars
    /\ [][ws_reads' > ws_reads
            => (/\ ws_reads' = 1
                /\ reports' = reports /\ suppressed' = suppressed
                /\ \/ ws_accepts = 1 /\ ws_accepts' = 0 /\ ws_end' = "none"
                   \/ /\ Len(ws_writes) = 1 /\ ws_writes' = <<>>
                      /\ ws_written' = Append(ws_written, ws_writes[1]))]_vars
    /\ [](/\ Len(ws_in) = Len(ws_echo)
          /\ Len(ws_echo) - Len(ws_written) \in {0, 1}
          /\ ws_reads = 1 => Len(ws_echo) = Len(ws_written))

\* the second message is being echoed after the first was read, written
\* and followed by the second read
C33_Witness ==
    /\ Len(ws_in) = 2 /\ Len(ws_written) = 1 /\ Len(ws_writes) = 1
    /\ ws_reads = 0 /\ ws_accepts = 0 /\ ws_end = "none"

\* C34: do_eof is called at most once in the life of an http session,
\* whichever of a close-directive write completion and the completion of
\* the read outstanding at that time comes first.
C34_EofOnce == eof_calls <= 1

====
